---- MODULE Spec2Model ----
(***************************************************************************)
(* Model of the real-time gateway of backend/app/core/socket.py: the       *)
(* raw-socket transport (ConnectionManager, websocket_endpoint), the       *)
(* Socket.IO transport (the sio event handlers, the module-level           *)
(* active_connections / user_sessions tables and the rooms of the          *)
(* Socket.IO server), the audio-stream buffers kept in the cache           *)
(* (backend/app/core/redis.py) and the conversation memory of the AI       *)
(* service (backend/app/core/ai.py).                                       *)
(***************************************************************************)
EXTENDS Integers, Sequences, FiniteSets, TLC

\* ------------------------------------------------------------------ bounds
\* raw-socket connection attempts (one websocket_endpoint call each)
MaxConn == 2
\* Socket.IO connection attempts (one sid each)
MaxSid == 2
\* connection attempts on both transports together in the registry specification
MaxAttempts == 3
\* events kept per client outbox
MaxOut == 2
\* events kept per client outbox in the audio specification
MaxAudioOut == 3
\* chunks a single audio buffer may hold in the model
MaxChunks == 2
\* clock ticks of the model
MaxTime == 3
\* voice commands handled on both transports together
MaxCmd == 2
\* connection attempts on both transports together in the specifications of
\* the frame handlers
MaxHandlerAttempts == 2
\* audio_stream invocations that run interleaved
MaxTasks == 2
\* events kept per outbox of a sid that a calendar update is delivered to
MaxCalendarOut == 3
\* events kept per client outbox in the fan-out specification
MaxFanoutOut == 3
\* _update_conversation_memory calls per user
MaxInteractions == 12

\* --------------------------------------------------------- program constants
\* websocket.close(code=4001, reason="Invalid token")
CloseInvalidToken == 4001
\* websocket.close(code=4000, reason="Internal error")
CloseInternalError == 4000
\* set_cache(cache_key, current_stream, expire=300)
AudioTTL == 300
\* seconds that pass in one tick of the model clock
TickSeconds == 150
\* "Keep only last 10 interactions"
MemoryLimit == 10

\* ------------------------------------------------------------- identifiers
Users == {"u1", "u2"}

\* str(uuid.uuid4()): a fresh identifier per ConnectionManager.connect call
ConnNames == <<"c1", "c2", "c3", "c4">>
ConnIds == {ConnNames[i] : i \in 1..MaxConn}

\* the sid the Socket.IO server gives each client, fresh per connection
SidNames == <<"s1", "s2", "s3", "s4">>
Sids == {SidNames[i] : i \in 1..MaxSid}

\* what verifying a credential yields: a user id, nothing (a falsy user id),
\* or an exception (verify_token raises HTTPException on a bad token)
TokenOutcomes == Users \cup {"None", "Raise"}

\* audio_chunk values of a frame: text chunks, and a bytes chunk (a binary
\* Socket.IO attachment), which json.dumps cannot serialise
Chunks == {"a", "b", "bytes"}

\* room names a client can ask for: a user id, or a sid that exists
RoomNames == Users \cup Sids

\* voice commands, numbered in the order their handlers start
CmdNames == <<"k1", "k2", "k3", "k4">>
CmdIds == {CmdNames[i] : i \in 1..MaxCmd}

\* audio_stream invocations, numbered in the order they start
TaskNames == <<"t1", "t2", "t3", "t4">>
TaskIds == {TaskNames[i] : i \in 1..MaxTasks}

\* 'type' values of raw-socket frames that websocket_endpoint has no branch
\* for: the Socket.IO-only events, and a frame without 'type'
UnknownTypes == {"audio_stream", "join_room", "None"}

\* what process_voice_command returns: success with response text, success
\* with an empty response, or success=False (it never raises)
AIOutcomes == {"ok", "empty", "fail"}

\* ---------------------------------------------------------------- state
VARIABLES
    \* ConnectionManager (raw-socket transport)
    mgr_active_connections,   \* keys of manager.active_connections
    mgr_user_connections,     \* manager.user_connections: user -> list of ids
    \* one websocket_endpoint call per raw connection attempt
    ws_pc,                    \* "new" | "loop" | "done"
    ws_user,                  \* user id the token resolved to, or the outcome
    client_state,             \* websocket.client_state
    application_state,        \* websocket.application_state
    close_code,               \* code of the close frame the server sent, 0 if none
    ws_out,                   \* events written to the socket, in order
    \* Socket.IO transport
    active_connections,       \* sid -> user id
    user_sessions,            \* user id -> list of sids
    sio_state,                \* "new" | "connected" | "disconnected"
    sio_auth,                 \* outcome of the credential check of each sid
    rooms,                    \* room name -> set of sids (Socket.IO server)
    sio_out,                  \* events delivered to each sid, in order
    \* cache (redis) and clock
    cache,                    \* key <<user, sid>> -> [stream, expires]
    now,
    \* history
    registered,               \* ids whose register call returned normally
    unregistered,             \* ids an unregister call has completed for
    stream,                   \* key -> chunks processed since the last final one
    finalized,                \* keys whose last processed chunk was final
    arrived,                  \* key -> arrival time of its most recent chunk
    \* handlers that are suspended at an await
    audio_tasks,              \* audio_stream invocations, by task
    commands,                 \* voice commands, by command
    fanout,                   \* the manager.broadcast call in progress
    calendar_audience,        \* history: <<connection, originator>>, the live
                              \* connections of the user of a calendar update
    user_fanout,              \* the manager.send_to_user call in progress
    \* AIService
    conversation_memory,      \* ai_service.conversation_memory: user -> list
    interactions              \* history: user -> number of interactions recorded

vars == <<mgr_active_connections, mgr_user_connections, ws_pc, ws_user,
          client_state, application_state, close_code, ws_out,
          active_connections, user_sessions, sio_state, sio_auth, rooms,
          sio_out, cache, now, registered, unregistered, stream, finalized,
          arrived, audio_tasks, commands, fanout, calendar_audience,
          user_fanout, conversation_memory, interactions>>

rawVars == <<mgr_active_connections, mgr_user_connections, ws_pc, ws_user,
             client_state, application_state, close_code, ws_out>>
sioVars == <<active_connections, user_sessions, sio_state, sio_auth, rooms,
             sio_out>>
audioVars == <<cache, now, stream, finalized, arrived>>
flightVars == <<audio_tasks, commands, fanout, calendar_audience, user_fanout>>
aiVars == <<conversation_memory, interactions>>
histVars == <<registered, unregistered>>

\* ------------------------------------------------------- python primitives
EmptyMap == [x \in {} |-> 0]

\* d[k] = v
DictSet(d, k, v) == [x \in DOMAIN d \cup {k} |-> IF x = k THEN v ELSE d[x]]

\* del d[k]
DictDel(d, k) == [x \in DOMAIN d \ {k} |-> d[x]]

\* x in list
InList(l, x) == \E i \in DOMAIN l : l[i] = x

\* list.remove(x): removes the first occurrence
ListRemove(l, x) ==
    IF ~InList(l, x) THEN l
    ELSE LET i == CHOOSE j \in DOMAIN l :
                     l[j] = x /\ \A k \in 1..(j - 1) : l[k] # x
         IN  SubSeq(l, 1, i - 1) \o SubSeq(l, i + 1, Len(l))

\* number of occurrences of x in a list
Count(l, x) == Cardinality({i \in DOMAIN l : l[i] = x})

Event(type, about) == [type |-> type, about |-> about]

\* an audio_stream invocation that has not started: its position, its
\* arguments, the locals cache_key and current_stream, the invocations that
\* were suspended on the same key when it started, and whether it has
\* emitted audio_processed
NoTask ==
    [pc |-> "new", sid |-> "none", key |-> <<"none", "none">>, chunk |-> "none",
     is_final |-> FALSE, current_stream |-> <<>>, during |-> {},
     emitted |-> FALSE]

\* a voice command whose handler has not started: its position, the
\* connection it came from, the result of the AI call and of the synthesis,
\* whether an exception reached the except clause, whether one left the
\* handler, and the events the handler has emitted
NoCommand ==
    [pc |-> "new", conn |-> "none", ai |-> "none", synth |-> "none",
     raised |-> FALSE, escaped |-> FALSE, emitted |-> <<>>]

\* no manager.broadcast call in progress: the connection ids still to be
\* sent to, and whether the last send raised
NoFanout == [pending |-> <<>>, raised |-> FALSE]

\* no manager.send_to_user call in progress. A call has its position, the
\* function it was made through, its user_id, the number of list items its
\* for loop has consumed, whether the list it iterates is still the one in
\* manager.user_connections, whether a send raised, and as history the
\* identifiers it wrote to, the lists of the user on both transports when it
\* started, the sids its Socket.IO emit reached, and whether the tables stayed
\* as they were during the call
NoUserFanout ==
    [pc |-> "idle", via |-> "none", user_id |-> "none", consumed |-> 0,
     attached |-> FALSE, raised |-> FALSE, delivered |-> <<>>,
     at_start |-> <<>>, sids_at_start |-> <<>>, sids_reached |-> {},
     quiet |-> TRUE]

\* ------------------------------------------------ raw-socket transport
\* the first connection attempt that has not started yet: identifiers are
\* fresh, so attempts are taken in a fixed order
FirstNew(pc, names, n, c) ==
    \E i \in 1..n : /\ names[i] = c
                    /\ pc[c] = "new"
                    /\ \A j \in 1..(i - 1) : pc[names[j]] # "new"

\* mutant: the connection id is appended to the user's list twice
ConnectionManager_connect_twice(ac, uc, connection_id, user_id) ==
    LET uc1 == IF user_id \notin DOMAIN uc
               THEN DictSet(uc, user_id, <<>>) ELSE uc
    IN  [ac |-> ac \cup {connection_id},
         uc |-> DictSet(uc1, user_id,
                        Append(Append(uc1[user_id], connection_id), connection_id))]

\* ConnectionManager.connect, the bookkeeping of lines 51-55
ConnectionManager_connect_tables(ac, uc, connection_id, user_id) ==
    LET uc1 == IF user_id \notin DOMAIN uc
               THEN DictSet(uc, user_id, <<>>) ELSE uc
    IN  [ac |-> ac \cup {connection_id},
         uc |-> DictSet(uc1, user_id, Append(uc1[user_id], connection_id))]

\* mutant: the connection is dropped from active_connections only, the
\* user's list keeps it
ConnectionManager_disconnect_keeps_list(ac, uc, cs, connection_id, user_id) ==
    [ac |-> ac \ {connection_id}, uc |-> uc,
     closed |-> connection_id \in ac /\ cs # "DISCONNECTED",
     raised |-> FALSE]

\* mutant: no membership tests before del and list.remove, so an absent
\* identifier raises KeyError / ValueError
ConnectionManager_disconnect_unguarded(ac, uc, cs, connection_id, user_id) ==
    LET inUc  == user_id \in DOMAIN uc
        uc1   == IF inUc
                 THEN DictSet(uc, user_id, ListRemove(uc[user_id], connection_id))
                 ELSE uc
        uc2   == IF inUc /\ uc1[user_id] = <<>> THEN DictDel(uc1, user_id) ELSE uc1
    IN  [ac |-> ac \ {connection_id}, uc |-> uc2,
         closed |-> connection_id \in ac /\ cs # "DISCONNECTED",
         raised |-> \/ connection_id \notin ac
                    \/ (inUc /\ ~InList(uc[user_id], connection_id))]

\* ConnectionManager.disconnect: the tables afterwards, whether
\* websocket.close() was called, and whether a del / list.remove raised
\* (KeyError, ValueError)
ConnectionManager_disconnect_tables(ac, uc, cs, connection_id, user_id) ==
    LET inAc  == connection_id \in ac
        ac1   == IF inAc THEN ac \ {connection_id} ELSE ac
        inUc  == user_id \in DOMAIN uc
        inLst == inUc /\ InList(uc[user_id], connection_id)
        uc1   == IF inLst
                 THEN DictSet(uc, user_id, ListRemove(uc[user_id], connection_id))
                 ELSE uc
        uc2   == IF inUc /\ uc1[user_id] = <<>> THEN DictDel(uc1, user_id) ELSE uc1
    IN  [ac |-> ac1, uc |-> uc2,
         closed |-> inAc /\ cs # "DISCONNECTED",
         \* del of an absent key (KeyError), remove of an absent item (ValueError)
         raised |-> \/ (inAc /\ connection_id \notin ac)
                    \/ (inLst /\ ~InList(uc[user_id], connection_id))
                    \/ (inUc /\ uc1[user_id] = <<>> /\ user_id \notin DOMAIN uc1)]

\* ConnectionManager.send_personal_message: whether websocket.send_text is
\* called for connection_id
send_personal_message_sends(ac, cs, connection_id) ==
    /\ connection_id \in ac
    /\ cs[connection_id] = "CONNECTED"

\* websocket.send_text succeeds when the application side has not sent a close
\* frame and the transport accepts the write (sent)
send_text_ok(as, connection_id, sent) ==
    as[connection_id] = "CONNECTED" /\ sent

\* websocket_endpoint, lines 381-384, for a socket whose client_state is cs
\* and application_state is as: the close frame sent, if any
OuterExceptClose(cs, as) == cs = "CONNECTED" /\ as = "CONNECTED"

\* one websocket_endpoint call up to its receive loop: the credential check,
\* then manager.connect with its connection_established message
websocket_endpoint(c, outcome, sent) ==
    /\ FirstNew(ws_pc, ConnNames, MaxConn, c)
    /\ outcome \in TokenOutcomes
    /\ ws_user' = [ws_user EXCEPT ![c] = outcome]
    /\ UNCHANGED <<sioVars, audioVars, flightVars, aiVars, unregistered>>
    /\ registered' = IF outcome \in Users /\ sent THEN registered \cup {c}
                     ELSE registered
    /\ CASE outcome = "Raise" ->
              \* the exception reaches the outer handler; the socket was
              \* never accepted, so client_state is not CONNECTED: no close
              /\ sent
              /\ ws_pc' = [ws_pc EXCEPT ![c] = "done"]
              /\ UNCHANGED <<mgr_active_connections, mgr_user_connections,
                             client_state, application_state, close_code, ws_out>>
         [] outcome = "None" ->
              /\ sent
              /\ ws_pc' = [ws_pc EXCEPT ![c] = "done"]
              /\ application_state' = [application_state EXCEPT ![c] = "DISCONNECTED"]
              /\ close_code' = [close_code EXCEPT ![c] = CloseInvalidToken]
              /\ UNCHANGED <<mgr_active_connections, mgr_user_connections,
                             client_state, ws_out>>
         [] OTHER ->
              LET t   == ConnectionManager_connect_tables(
                             mgr_active_connections, mgr_user_connections, c, outcome)
                  cs1 == [client_state EXCEPT ![c] = "CONNECTED"]
                  as1 == [application_state EXCEPT ![c] = "CONNECTED"]
                  ok  == send_personal_message_sends(t.ac, cs1, c)
                         /\ send_text_ok(as1, c, sent)
              IN  /\ mgr_active_connections' = t.ac
                  /\ mgr_user_connections' = t.uc
                  /\ client_state' = cs1
                  /\ IF ok
                     THEN /\ ws_out' = [ws_out EXCEPT ![c] =
                                 Append(@, Event("connection_established", c))]
                          /\ ws_pc' = [ws_pc EXCEPT ![c] = "loop"]
                          /\ application_state' = as1
                          /\ UNCHANGED close_code
                     ELSE \* send_text raised out of manager.connect
                          /\ ws_pc' = [ws_pc EXCEPT ![c] = "done"]
                          /\ application_state' =
                                 [as1 EXCEPT ![c] = "DISCONNECTED"]
                          /\ close_code' = [close_code EXCEPT ![c] =
                                 IF OuterExceptClose(cs1[c], as1[c])
                                 THEN CloseInternalError ELSE @]
                          /\ UNCHANGED ws_out

\* del self.user_connections[user_id], line 80, seen from a send_to_user call
\* uf that iterates the list of user_id: the call keeps the list object, now
\* empty, and the table gets a new list when the user connects again. uc is
\* the table after the disconnect
detach(uf, uc, user_id) ==
    IF uf.pc = "sending" /\ uf.user_id = user_id /\ user_id \notin DOMAIN uc
    THEN [uf EXCEPT !.attached = FALSE]
    ELSE uf

\* receive_text raises WebSocketDisconnect: lines 378-379
ws_client_disconnect(c) ==
    /\ ws_pc[c] = "loop"
    /\ LET cs1 == [client_state EXCEPT ![c] = "DISCONNECTED"]
           t   == ConnectionManager_disconnect_tables(
                      mgr_active_connections, mgr_user_connections,
                      cs1[c], c, ws_user[c])
       IN  /\ client_state' = cs1
           /\ mgr_active_connections' = t.ac
           /\ mgr_user_connections' = t.uc
           /\ application_state' = [application_state EXCEPT ![c] =
                  IF t.closed THEN "DISCONNECTED" ELSE @]
           /\ ws_pc' = [ws_pc EXCEPT ![c] = "done"]
           /\ unregistered' = unregistered \cup {c}
           /\ user_fanout' = detach(user_fanout, t.uc, ws_user[c])
    /\ UNCHANGED <<ws_user, close_code, ws_out, sioVars, audioVars, aiVars,
                   audio_tasks, commands, fanout, calendar_audience, registered>>

\* a frame json.loads rejects, or JSON that is no object (message.get fails):
\* the exception leaves the loop through the outer handler, lines 381-384
ws_bad_frame(c) ==
    /\ ws_pc[c] = "loop"
    /\ ws_pc' = [ws_pc EXCEPT ![c] = "done"]
    /\ close_code' = [close_code EXCEPT ![c] =
           IF OuterExceptClose(client_state[c], application_state[c])
           THEN CloseInternalError ELSE @]
    /\ application_state' = [application_state EXCEPT ![c] = "DISCONNECTED"]
    /\ UNCHANGED <<mgr_active_connections, mgr_user_connections, ws_user,
                   client_state, ws_out, sioVars, audioVars, flightVars, aiVars, histVars>>

\* the reply of the loop to a frame: written, or send_text raises and the
\* exception leaves the loop through the outer handler
ws_reply(c, ev, sent) ==
    /\ ws_pc[c] = "loop"
    /\ Len(ws_out[c]) < MaxOut
    /\ IF ~send_personal_message_sends(mgr_active_connections, client_state, c)
       THEN UNCHANGED <<ws_pc, ws_out, close_code, application_state>>
       ELSE IF send_text_ok(application_state, c, sent)
       THEN /\ ws_out' = [ws_out EXCEPT ![c] = Append(@, ev)]
            /\ UNCHANGED <<ws_pc, close_code, application_state>>
       ELSE /\ ws_pc' = [ws_pc EXCEPT ![c] = "done"]
            /\ close_code' = [close_code EXCEPT ![c] =
                   IF OuterExceptClose(client_state[c], application_state[c])
                   THEN CloseInternalError ELSE @]
            /\ application_state' = [application_state EXCEPT ![c] = "DISCONNECTED"]
            /\ UNCHANGED ws_out
    /\ UNCHANGED <<mgr_active_connections, mgr_user_connections, ws_user,
                   client_state, sioVars, audioVars, flightVars, aiVars, histVars>>

\* mutant: the ping branch is missing, so a ping falls through to the
\* branch of unknown types
ws_ping_as_unknown(c, sent) == ws_reply(c, Event("error", "ping"), sent)

\* a ping frame, lines 367-371
ws_ping(c, sent) == ws_reply(c, Event("pong", c), sent)

\* mutant: a frame of an unknown type ends the receive loop, as a frame that
\* cannot be parsed does
ws_unknown_fatal(c, message_type, sent) ==
    /\ message_type \in UnknownTypes
    /\ ws_bad_frame(c)

\* a frame of an unknown type, lines 372-376: the error message names
\* message_type
ws_unknown(c, message_type, sent) ==
    /\ message_type \in UnknownTypes
    /\ ws_reply(c, Event("error", message_type), sent)

\* ------------------------------------------------- Socket.IO transport
\* sio.emit(event, data, room=room): the outboxes after delivery to every
\* member of the room
emit(out, rm, room, ev) ==
    [s \in DOMAIN out |->
        IF room \in DOMAIN rm /\ s \in rm[room] THEN Append(out[s], ev) ELSE out[s]]

\* the members a room has
Members(rm, room) == IF room \in DOMAIN rm THEN rm[room] ELSE {}

\* sio.enter_room(sid, room)
enter_room(rm, sid, room) == [rm EXCEPT ![room] = @ \cup {sid}]

\* sio.leave_room(sid, room)
leave_room_of(rm, sid, room) == [rm EXCEPT ![room] = @ \ {sid}]

\* the server drops a disconnected sid from every room
close_rooms(rm, sid) == [r \in DOMAIN rm |-> rm[r] \ {sid}]

\* the connect handler, lines 124-134: the tables after recording
connect_tables(ac, us, sid, user_id) ==
    LET us1 == IF user_id \notin DOMAIN us THEN DictSet(us, user_id, <<>>) ELSE us
    IN  [ac |-> DictSet(ac, sid, user_id),
         us |-> DictSet(us1, user_id, Append(us1[user_id], sid))]

\* mutant: the user's list is not pruned when it becomes empty
disconnect_tables_noprune(ac, us, sid) ==
    IF sid \notin DOMAIN ac THEN [ac |-> ac, us |-> us, raised |-> FALSE]
    ELSE LET user_id == ac[sid]
             us1 == IF user_id \in DOMAIN us
                    THEN DictSet(us, user_id, ListRemove(us[user_id], sid))
                    ELSE us
         IN  [ac |-> DictDel(ac, sid), us |-> us1, raised |-> FALSE]

\* the disconnect handler, lines 156-170: the tables afterwards, and whether
\* anything raised inside its try block
disconnect_tables(ac, us, sid) ==
    IF sid \notin DOMAIN ac THEN [ac |-> ac, us |-> us, raised |-> FALSE]
    ELSE LET user_id == ac[sid]
             ac1   == DictDel(ac, sid)
             inUs  == user_id \in DOMAIN us
             inLst == inUs /\ InList(us[user_id], sid)
             us1   == IF inLst
                      THEN DictSet(us, user_id, ListRemove(us[user_id], sid))
                      ELSE us
             us2   == IF inUs /\ us1[user_id] = <<>> THEN DictDel(us1, user_id) ELSE us1
         IN  [ac |-> ac1, us |-> us2,
              raised |-> \/ (inLst /\ ~InList(us[user_id], sid))
                         \/ (inUs /\ us1[user_id] = <<>> /\ user_id \notin DOMAIN us1)]

\* get_user_connections(user_id), lines 470-482
get_user_connections(user_id) ==
    (IF user_id \in DOMAIN user_sessions THEN user_sessions[user_id] ELSE <<>>)
    \o (IF user_id \in DOMAIN mgr_user_connections
        THEN mgr_user_connections[user_id] ELSE <<>>)

\* every recipient of an emit to room has fewer than n events in its outbox
RoomHasSpaceN(rm, room, n) == \A s \in Members(rm, room) : Len(sio_out[s]) < n

\* every recipient of an emit to room has space in its outbox
RoomHasSpace(rm, room) == RoomHasSpaceN(rm, room, MaxOut)

\* mutant: connection_established goes to the user's room, as calendar_updated
\* does, not to the room of the sid
connection_established_user_room(sid, user_id) == user_id

\* the room connection_established is emitted to, lines 139-143
connection_established_room(sid, user_id) == sid

\* the connect handler, lines 108-150. outcome is what the credentials give:
\* auth['user_id'] or the user of the Authorization header, nothing, or an
\* exception. sio.disconnect(sid) runs the disconnect handler and drops the
\* sid from its rooms.
connect(sid, outcome, sent) ==
    /\ FirstNew(sio_state, SidNames, MaxSid, sid)
    /\ outcome \in TokenOutcomes
    /\ sio_auth' = [sio_auth EXCEPT ![sid] = outcome]
    /\ UNCHANGED <<rawVars, audioVars, flightVars, aiVars>>
    /\ registered' = IF outcome \in Users /\ sent THEN registered \cup {sid}
                     ELSE registered
    /\ LET rm1 == enter_room(rooms, sid, sid)
       IN  IF outcome \in {"None", "Raise"}
           THEN LET t == disconnect_tables(active_connections, user_sessions, sid)
                IN  /\ sent
                    /\ active_connections' = t.ac
                    /\ user_sessions' = t.us
                    /\ rooms' = close_rooms(rm1, sid)
                    /\ sio_state' = [sio_state EXCEPT ![sid] = "disconnected"]
                    /\ unregistered' = unregistered \cup {sid}
                    /\ UNCHANGED sio_out
           ELSE LET t == connect_tables(active_connections, user_sessions, sid, outcome)
                IN  IF sent
                    THEN /\ active_connections' = t.ac
                         /\ user_sessions' = t.us
                         /\ rooms' = rm1
                         /\ sio_out' = emit(sio_out, rm1,
                                            connection_established_room(sid, outcome),
                                            Event("connection_established", sid))
                         /\ sio_state' = [sio_state EXCEPT ![sid] = "connected"]
                         /\ UNCHANGED unregistered
                    ELSE \* sio.emit raised: lines 147-150
                         LET d == disconnect_tables(t.ac, t.us, sid)
                         IN  /\ active_connections' = d.ac
                             /\ user_sessions' = d.us
                             /\ rooms' = close_rooms(rm1, sid)
                             /\ sio_state' = [sio_state EXCEPT ![sid] = "disconnected"]
                             /\ unregistered' = unregistered \cup {sid}
                             /\ UNCHANGED sio_out

\* the client of sid goes away: the server runs the disconnect handler, lines
\* 153-170, and drops the sid from its rooms
disconnect(sid) ==
    /\ sio_state[sid] = "connected"
    /\ LET t == disconnect_tables(active_connections, user_sessions, sid)
       IN  /\ active_connections' = t.ac
           /\ user_sessions' = t.us
    /\ rooms' = close_rooms(rooms, sid)
    /\ sio_state' = [sio_state EXCEPT ![sid] = "disconnected"]
    /\ unregistered' = unregistered \cup {sid}
    /\ UNCHANGED <<sio_auth, sio_out, rawVars, audioVars, flightVars, aiVars, registered>>

\* room names a client can name: user ids, and sids the server has given out
KnownRooms == Users \cup {s \in Sids : sio_state[s] # "new"}

\* join_room, lines 309-322
join_room(sid, room) ==
    /\ sio_state[sid] = "connected"
    /\ room \in KnownRooms
    /\ LET rm1 == enter_room(rooms, sid, room)
       IN  /\ RoomHasSpace(rm1, sid)
           /\ rooms' = rm1
           /\ sio_out' = emit(sio_out, rm1, sid, Event("room_joined", sid))
    /\ UNCHANGED <<active_connections, user_sessions, sio_state, sio_auth,
                   rawVars, audioVars, flightVars, aiVars, histVars>>

\* leave_room, lines 325-338
leave_room(sid, room) ==
    /\ sio_state[sid] = "connected"
    /\ room \in KnownRooms
    /\ LET rm1 == leave_room_of(rooms, sid, room)
       IN  /\ RoomHasSpace(rm1, sid)
           /\ rooms' = rm1
           /\ sio_out' = emit(sio_out, rm1, sid, Event("room_left", sid))
    /\ UNCHANGED <<active_connections, user_sessions, sio_state, sio_auth,
                   rawVars, audioVars, flightVars, aiVars, histVars>>

\* ---------------------------------------------------------- specification
Init ==
    /\ mgr_active_connections = {}
    /\ mgr_user_connections = EmptyMap
    /\ ws_pc = [c \in ConnIds |-> "new"]
    /\ ws_user = [c \in ConnIds |-> "None"]
    /\ client_state = [c \in ConnIds |-> "CONNECTING"]
    /\ application_state = [c \in ConnIds |-> "CONNECTING"]
    /\ close_code = [c \in ConnIds |-> 0]
    /\ ws_out = [c \in ConnIds |-> <<>>]
    /\ active_connections = EmptyMap
    /\ user_sessions = EmptyMap
    /\ sio_state = [s \in Sids |-> "new"]
    /\ sio_auth = [s \in Sids |-> "None"]
    /\ rooms = [r \in RoomNames |-> {}]
    /\ sio_out = [s \in Sids |-> <<>>]
    /\ cache = EmptyMap
    /\ now = 0
    /\ registered = {}
    /\ unregistered = {}
    /\ stream = EmptyMap
    /\ finalized = {}
    /\ arrived = EmptyMap
    /\ audio_tasks = [t \in TaskIds |-> NoTask]
    /\ commands = [k \in CmdIds |-> NoCommand]
    /\ fanout = NoFanout
    /\ calendar_audience = {}
    /\ user_fanout = NoUserFanout
    /\ conversation_memory = EmptyMap
    /\ interactions = [u \in Users |-> 0]

\* the connection attempts made so far on both transports
Attempts ==
    Cardinality({c \in ConnIds : ws_pc[c] # "new"})
    + Cardinality({s \in Sids : sio_state[s] # "new"})

\* the sids whose clients join and leave rooms in the registry specification
RoomSids == {SidNames[1]}

\* the registry on both transports: connection attempts, the ends of the
\* receive loop, disconnects, and the rooms of sids
Next ==
    \/ \E c \in ConnIds, o \in TokenOutcomes, sent \in BOOLEAN :
           Attempts < MaxAttempts /\ websocket_endpoint(c, o, sent)
    \/ \E c \in ConnIds : ws_client_disconnect(c)
    \/ \E c \in ConnIds : ws_bad_frame(c)
    \/ \E s \in Sids, o \in TokenOutcomes, sent \in BOOLEAN :
           Attempts < MaxAttempts /\ connect(s, o, sent)
    \/ \E s \in Sids : disconnect(s)
    \/ \E s \in RoomSids, r \in Sids : join_room(s, r)
    \/ \E s \in RoomSids, r \in Sids : leave_room(s, r)

Spec == Init /\ [][Next]_vars

\* ------------------------------------------------------- cache and audio
\* json.dumps raises TypeError on a bytes chunk
JsonSerializable(value) == \A i \in DOMAIN value : value[i].chunk # "bytes"

\* json.dumps / json.loads of a list of chunk records
json_dumps(value) == [json |-> value]
json_loads(text) == text.json

\* set_cache(key, value, expire), redis.py lines 92-101, at time t: a value
\* json.dumps rejects is not stored (the exception is logged, False returned)
set_cache(ch, key, value, expire, t) ==
    IF JsonSerializable(value)
    THEN DictSet(ch, key, [value |-> json_dumps(value), expires |-> t + expire])
    ELSE ch

\* get_cache(key), redis.py lines 104-116, at time t
get_cache(ch, key, t) ==
    IF key \in DOMAIN ch /\ ch[key].expires > t
    THEN [found |-> TRUE, value |-> json_loads(ch[key].value)]
    ELSE [found |-> FALSE, value |-> <<>>]

\* the chunks the cache holds for key at time t (empty when absent)
Buffer(ch, key, t) == get_cache(ch, key, t).value

\* audio_stream, lines 250-259: the cache after one chunk
audio_stream_cache(ch, key, audio_chunk, is_final, t) ==
    LET got == get_cache(ch, key, t)
        current_stream == IF got.found /\ got.value # <<>> THEN got.value ELSE <<>>
        appended == Append(current_stream,
                           [chunk |-> audio_chunk, is_final |-> is_final])
    IN  set_cache(ch, key, appended, AudioTTL, t)

\* audio_stream, lines 238-274, for a connected sid
audio_stream(sid, audio_chunk, is_final) ==
    /\ sio_state[sid] = "connected"
    /\ is_final \/ sid \notin DOMAIN active_connections
           => RoomHasSpaceN(rooms, sid, MaxAudioOut)
    /\ IF sid \notin DOMAIN active_connections
       THEN /\ sio_out' = emit(sio_out, rooms, sid, Event("error", sid))
            /\ UNCHANGED <<cache, stream, finalized, arrived>>
       ELSE LET key == <<active_connections[sid], sid>>
                rec == [chunk |-> audio_chunk, is_final |-> is_final]
            IN  /\ Len(Buffer(cache, key, now)) < MaxChunks
                /\ key \in DOMAIN stream /\ key \notin finalized
                       => Len(stream[key]) < MaxChunks
                /\ cache' = audio_stream_cache(cache, key, audio_chunk, is_final, now)
                /\ sio_out' = IF is_final
                              THEN emit(sio_out, rooms, sid, Event("audio_processed", sid))
                              ELSE sio_out
                /\ stream' = DictSet(stream, key,
                       IF key \in DOMAIN stream /\ key \notin finalized
                       THEN Append(stream[key], rec) ELSE <<rec>>)
                /\ finalized' = IF is_final THEN finalized \cup {key}
                                ELSE finalized \ {key}
                /\ arrived' = DictSet(arrived, key, now)
    /\ UNCHANGED <<active_connections, user_sessions, sio_state, sio_auth, rooms,
                   now, rawVars, histVars, flightVars, aiVars>>

\* the keys of ch that are live at time t
Live(ch, t) == {k \in DOMAIN ch : ch[k].expires > t}

\* time passes; redis drops the keys whose expiry has come
tick ==
    /\ now < MaxTime * TickSeconds
    /\ now' = now + TickSeconds
    /\ cache' = [k \in Live(cache, now') |-> cache[k]]
    /\ stream' = [k \in DOMAIN stream \ (DOMAIN cache \ Live(cache, now')) |-> stream[k]]
    /\ finalized' = finalized \ (DOMAIN cache \ Live(cache, now'))
    /\ UNCHANGED <<sioVars, rawVars, histVars, arrived, flightVars, aiVars>>

\* the sids whose clients stream audio in the audio specification
AudioSids == {SidNames[1]}

\* the Socket.IO transport with its audio streams
NextAudio ==
    \/ \E s \in Sids, o \in TokenOutcomes, sent \in BOOLEAN : connect(s, o, sent)
    \/ \E s \in Sids : disconnect(s)
    \/ \E s \in AudioSids, ch \in Chunks, f \in BOOLEAN : audio_stream(s, ch, f)
    \/ tick

SpecAudio == Init /\ [][NextAudio]_vars

\* ------------------------------------------- audio_stream, await by await
\* the positions of the invocations, for FirstNew
TaskPc == [t \in TaskIds |-> audio_tasks[t].pc]

\* the invocations suspended between their get_cache and their return
Suspended(key) ==
    {t \in TaskIds : audio_tasks[t].pc \in {"got", "set"} /\ audio_tasks[t].key = key}

\* the record audio_stream appends, lines 253-257
ChunkRecord(audio_chunk, is_final) == [chunk |-> audio_chunk, is_final |-> is_final]

\* audio_stream up to the return of await get_cache, lines 241-252
audio_stream_get(t, sid, audio_chunk, is_final) ==
    /\ FirstNew(TaskPc, TaskNames, MaxTasks, t)
    /\ sio_state[sid] = "connected"
    /\ IF sid \notin DOMAIN active_connections
       THEN /\ sio_out' = emit(sio_out, rooms, sid, Event("error", sid))
            /\ audio_tasks' = [audio_tasks EXCEPT ![t] =
                   [NoTask EXCEPT !.pc = "done", !.sid = sid]]
            /\ UNCHANGED <<stream, finalized, arrived>>
       ELSE LET key == <<active_connections[sid], sid>>
                got == get_cache(cache, key, now)
                rec == ChunkRecord(audio_chunk, is_final)
            IN  /\ audio_tasks' = [audio_tasks EXCEPT ![t] =
                       [pc |-> "got", sid |-> sid, key |-> key,
                        chunk |-> audio_chunk, is_final |-> is_final,
                        current_stream |->
                            IF got.found /\ got.value # <<>> THEN got.value ELSE <<>>,
                        during |-> Suspended(key), emitted |-> FALSE]]
                /\ stream' = DictSet(stream, key,
                       IF key \in DOMAIN stream /\ key \notin finalized
                       THEN Append(stream[key], rec) ELSE <<rec>>)
                /\ finalized' = IF is_final THEN finalized \cup {key}
                                ELSE finalized \ {key}
                /\ arrived' = DictSet(arrived, key, now)
                /\ UNCHANGED sio_out
    /\ UNCHANGED <<active_connections, user_sessions, sio_state, sio_auth, rooms,
                   cache, now, rawVars, histVars, commands, fanout, calendar_audience,
                   user_fanout, aiVars>>

\* audio_stream from the append to the return of await set_cache, lines 253-259
audio_stream_set(t) ==
    /\ audio_tasks[t].pc = "got"
    /\ LET task == audio_tasks[t]
       IN  /\ cache' = set_cache(cache, task.key,
                  Append(task.current_stream, ChunkRecord(task.chunk, task.is_final)),
                  AudioTTL, now)
           /\ audio_tasks' = [audio_tasks EXCEPT ![t].pc =
                  IF task.is_final THEN "set" ELSE "done"]
    /\ UNCHANGED <<sioVars, rawVars, histVars, now, stream, finalized, arrived,
                   commands, fanout, calendar_audience,
                   user_fanout, aiVars>>

\* audio_stream after a final chunk was stored, lines 262-267
audio_stream_emit(t) ==
    /\ audio_tasks[t].pc = "set"
    /\ sio_out' = emit(sio_out, rooms, audio_tasks[t].sid,
                       Event("audio_processed", audio_tasks[t].sid))
    /\ audio_tasks' = [audio_tasks EXCEPT ![t].pc = "done", ![t].emitted = TRUE]
    /\ UNCHANGED <<active_connections, user_sessions, sio_state, sio_auth, rooms,
                   rawVars, histVars, audioVars, commands, fanout, calendar_audience,
                   user_fanout, aiVars>>

\* the Socket.IO transport with audio_stream handlers that interleave at
\* their awaits (the server starts one task per event)
NextAudioRace ==
    \/ \E s \in Sids, o \in TokenOutcomes, sent \in BOOLEAN : connect(s, o, sent)
    \/ \E s \in Sids : disconnect(s)
    \/ \E t \in TaskIds, s \in Sids, ch \in Chunks, f \in BOOLEAN :
           audio_stream_get(t, s, ch, f)
    \/ \E t \in TaskIds : audio_stream_set(t)
    \/ \E t \in TaskIds : audio_stream_emit(t)

SpecAudioRace == Init /\ [][NextAudioRace]_vars

\* ------------------------------------------------------- voice commands
\* the voice events of a command, in the order the handlers emit them
VoiceEvents == <<"voice_processing", "voice_response", "voice_audio">>

\* what generate_voice_response returns: success, or success=False (it
\* never raises)
VoiceResults == {"ok", "fail"}

\* the positions of the commands, for FirstNew
CommandPc == [k \in CmdIds |-> commands[k].pc]

\* what a manager.send_personal_message call for c does: nothing, a write,
\* or an exception of send_text
ws_send_outcome(c, sent) ==
    IF ~send_personal_message_sends(mgr_active_connections, client_state, c)
    THEN "skipped"
    ELSE IF send_text_ok(application_state, c, sent) THEN "written" ELSE "raised"

\* an exception leaves the receive loop of c through lines 381-384
ws_escape(c) ==
    /\ ws_pc' = [ws_pc EXCEPT ![c] = "done"]
    /\ close_code' = [close_code EXCEPT ![c] =
           IF OuterExceptClose(client_state[c], application_state[c])
           THEN CloseInternalError ELSE @]
    /\ application_state' = [application_state EXCEPT ![c] = "DISCONNECTED"]

\* the except clause of handle_voice_command_ws, lines 420-426, for command
\* cmd of connection c: the error message is written, or its send_text
\* raises as well and the exception leaves the handler and the loop
ws_voice_except(k, c, cmd, sent_error) ==
    LET o == ws_send_outcome(c, sent_error)
    IN  /\ commands' = [commands EXCEPT ![k] =
               [cmd EXCEPT !.pc = "done", !.raised = TRUE,
                           !.escaped = (o = "raised"),
                           !.emitted = IF o = "written"
                                       THEN Append(cmd.emitted, "error")
                                       ELSE cmd.emitted]]
        /\ IF o = "raised"
           THEN ws_escape(c) /\ UNCHANGED ws_out
           ELSE /\ ws_out' = [ws_out EXCEPT ![c] =
                       IF o = "written" THEN Append(@, Event("error", k)) ELSE @]
                /\ ws_pc' = [ws_pc EXCEPT ![c] = "loop"]
                /\ UNCHANGED <<close_code, application_state>>

\* mutant: process_voice_command does not yield to the event loop, so no
\* receive loop gets a frame while an AI call is pending
receiving_blocked_by_ai(c) ==
    /\ ws_pc[c] = "loop"
    /\ \A k \in CmdIds : commands[k].pc # "ai"

\* the receive loop of c is at await websocket.receive_text(), line 357: each
\* websocket_endpoint call is a coroutine of its own, so this depends on the
\* position of c alone
receiving(c) == ws_pc[c] = "loop"

\* handle_voice_command_ws up to the await of process_voice_command, lines
\* 387-406; the loop of c receives no frame while the call is pending
handle_voice_command_ws(k, c, sent, sent_error) ==
    /\ receiving(c)
    /\ FirstNew(CommandPc, CmdNames, MaxCmd, k)
    /\ LET cmd == [NoCommand EXCEPT !.conn = c]
           o   == ws_send_outcome(c, sent)
       IN  IF o = "raised"
           THEN ws_voice_except(k, c, cmd, sent_error)
           ELSE /\ ws_out' = [ws_out EXCEPT ![c] =
                       IF o = "written"
                       THEN Append(@, Event("voice_processing", k)) ELSE @]
                /\ ws_pc' = [ws_pc EXCEPT ![c] = "voice"]
                /\ commands' = [commands EXCEPT ![k] =
                       [cmd EXCEPT !.pc = "ai",
                                   !.emitted = IF o = "written"
                                               THEN <<"voice_processing">>
                                               ELSE <<>>]]
                /\ UNCHANGED <<close_code, application_state>>
    /\ UNCHANGED <<mgr_active_connections, mgr_user_connections, ws_user,
                   client_state, sioVars, audioVars, histVars, audio_tasks,
                   fanout, calendar_audience,
                   user_fanout, aiVars>>

\* handle_voice_command_ws from the return of process_voice_command, lines
\* 407-426: voice_response is written, and the handler returns to the loop
handle_voice_command_ws_result(k, outcome, sent, sent_error) ==
    /\ commands[k].pc = "ai"
    /\ commands[k].conn \in ConnIds
    /\ outcome \in AIOutcomes
    /\ LET c   == commands[k].conn
           cmd == [commands[k] EXCEPT !.ai = outcome]
           o   == ws_send_outcome(c, sent)
       IN  IF o = "raised"
           THEN ws_voice_except(k, c, cmd, sent_error)
           ELSE /\ ws_out' = [ws_out EXCEPT ![c] =
                       IF o = "written"
                       THEN Append(@, Event("voice_response", k)) ELSE @]
                /\ ws_pc' = [ws_pc EXCEPT ![c] = "loop"]
                /\ commands' = [commands EXCEPT ![k] =
                       [cmd EXCEPT !.pc = "done",
                                   !.emitted = IF o = "written"
                                               THEN Append(@, "voice_response")
                                               ELSE @]]
                /\ UNCHANGED <<close_code, application_state>>
    /\ UNCHANGED <<mgr_active_connections, mgr_user_connections, ws_user,
                   client_state, sioVars, audioVars, histVars, audio_tasks,
                   fanout, calendar_audience,
                   user_fanout, aiVars>>

\* voice_command up to the await of process_voice_command, lines 173-200.
\* is_dict: the payload is a dict (data.get raises AttributeError otherwise,
\* and the except clause, lines 229-235, emits one error)
voice_command(k, sid, is_dict) ==
    /\ sio_state[sid] = "connected"
    /\ FirstNew(CommandPc, CmdNames, MaxCmd, k)
    /\ LET cmd == [NoCommand EXCEPT !.conn = sid]
       IN  IF sid \notin DOMAIN active_connections
           THEN /\ sio_out' = emit(sio_out, rooms, sid, Event("error", k))
                /\ commands' = [commands EXCEPT ![k] =
                       [cmd EXCEPT !.pc = "done", !.emitted = <<"error">>]]
           ELSE IF ~is_dict
           THEN /\ sio_out' = emit(sio_out, rooms, sid, Event("error", k))
                /\ commands' = [commands EXCEPT ![k] =
                       [cmd EXCEPT !.pc = "done", !.raised = TRUE,
                                   !.emitted = <<"error">>]]
           ELSE /\ sio_out' = emit(sio_out, rooms, sid, Event("voice_processing", k))
                /\ commands' = [commands EXCEPT ![k] =
                       [cmd EXCEPT !.pc = "ai", !.emitted = <<"voice_processing">>]]
    /\ UNCHANGED <<active_connections, user_sessions, sio_state, sio_auth, rooms,
                   rawVars, audioVars, histVars, audio_tasks, fanout, calendar_audience,
                   user_fanout, aiVars>>

\* mutant: a command whose AI result is not a success with a response text
\* is handed to process_voice_command again
pc_after_response_retry(outcome) == IF outcome = "ok" THEN "synth" ELSE "ai"

\* where voice_command goes after voice_response, line 214: to the synthesis
\* if result.get('success') and result.get('response'), to its end otherwise
pc_after_response(outcome) == IF outcome = "ok" THEN "synth" ELSE "done"

\* voice_command from the return of process_voice_command to the await of
\* generate_voice_response, lines 201-218
voice_command_result(k, outcome) ==
    /\ commands[k].pc = "ai"
    /\ commands[k].conn \in Sids
    /\ outcome \in AIOutcomes
    /\ sio_out' = emit(sio_out, rooms, commands[k].conn, Event("voice_response", k))
    /\ commands' = [commands EXCEPT ![k] =
           [@ EXCEPT !.ai = outcome,
                     !.pc = pc_after_response(outcome),
                     !.emitted = Append(@, "voice_response")]]
    /\ UNCHANGED <<active_connections, user_sessions, sio_state, sio_auth, rooms,
                   rawVars, audioVars, histVars, audio_tasks, fanout, calendar_audience,
                   user_fanout, aiVars>>

\* mutant: voice_audio is emitted whatever the synthesis returned
voice_audio_unconditional(voice_result) == TRUE

\* the test of line 220: if voice_result.get('success')
voice_audio_emitted(voice_result) == voice_result = "ok"

\* voice_command from the return of generate_voice_response, lines 219-227
voice_command_audio(k, voice_result) ==
    /\ commands[k].pc = "synth"
    /\ voice_result \in VoiceResults
    /\ sio_out' = IF voice_audio_emitted(voice_result)
                  THEN emit(sio_out, rooms, commands[k].conn, Event("voice_audio", k))
                  ELSE sio_out
    /\ commands' = [commands EXCEPT ![k] =
           [@ EXCEPT !.synth = voice_result, !.pc = "done",
                     !.emitted = IF voice_audio_emitted(voice_result)
                                 THEN Append(@, "voice_audio") ELSE @]]
    /\ UNCHANGED <<active_connections, user_sessions, sio_state, sio_auth, rooms,
                   rawVars, audioVars, histVars, audio_tasks, fanout, calendar_audience,
                   user_fanout, aiVars>>

\* both transports with their voice commands, for connections that were
\* registered; a Socket.IO client may join the room of another sid
NextVoice ==
    \/ \E c \in ConnIds, u \in Users :
           Attempts < MaxHandlerAttempts /\ websocket_endpoint(c, u, TRUE)
    \/ \E c \in ConnIds : ws_client_disconnect(c)
    \/ \E s \in Sids, u \in Users :
           Attempts < MaxHandlerAttempts /\ connect(s, u, TRUE)
    \/ \E s \in Sids : disconnect(s)
    \/ \E s \in RoomSids : \E r \in Sids \ {s} : join_room(s, r)
    \/ \E k \in CmdIds, c \in ConnIds, sent \in BOOLEAN, sent_error \in BOOLEAN :
           handle_voice_command_ws(k, c, sent, sent_error)
    \/ \E k \in CmdIds, o \in AIOutcomes, sent \in BOOLEAN, sent_error \in BOOLEAN :
           handle_voice_command_ws_result(k, o, sent, sent_error)
    \/ \E k \in CmdIds, s \in Sids, d \in BOOLEAN : voice_command(k, s, d)
    \/ \E k \in CmdIds, o \in AIOutcomes : voice_command_result(k, o)
    \/ \E k \in CmdIds, v \in VoiceResults : voice_command_audio(k, v)

SpecVoice == Init /\ [][NextVoice]_vars

\* the collaborator calls return: a handler that awaits process_voice_command
\* or generate_voice_response is resumed
VoiceFairness ==
    \A k \in CmdIds :
        /\ WF_vars(\E o \in AIOutcomes, sent \in BOOLEAN, sent_error \in BOOLEAN :
                      handle_voice_command_ws_result(k, o, sent, sent_error))
        /\ WF_vars(\E o \in AIOutcomes : voice_command_result(k, o))
        /\ WF_vars(\E v \in VoiceResults : voice_command_audio(k, v))

SpecVoiceLive == SpecVoice /\ VoiceFairness

\* the lifecycle state of a command, from the position of its handler: the
\* handler is at the await of process_voice_command (processing), at the
\* await of generate_voice_response (synthesizing), or has ended, through an
\* except clause or a 'Not authenticated' error (error) or at its last
\* statement (delivered). received and responded are passed inside a step:
\* from the entry to voice_processing, and at voice_response
Lifecycle(cmd) ==
    CASE cmd.pc = "new" -> "none"
      [] cmd.pc = "ai" -> "processing"
      [] cmd.pc = "synth" -> "synthesizing"
      [] OTHER -> IF cmd.raised \/ InList(cmd.emitted, "error")
                  THEN "error" ELSE "delivered"

\* ------------------------------------------- calendar frames, broadcast
\* handle_calendar_update_ws, lines 429-451: calendar_updated goes to
\* connection_id; when its send_text raises, the except clause sends an
\* error, and when that raises as well the exception leaves the loop
handle_calendar_update_ws(c, sent, sent_error) ==
    /\ ws_pc[c] = "loop"
    /\ Len(ws_out[c]) < MaxOut
    /\ LET o  == ws_send_outcome(c, sent)
           o2 == ws_send_outcome(c, sent_error)
       IN  /\ IF o = "raised" /\ o2 = "raised"
              THEN ws_escape(c) /\ UNCHANGED ws_out
              ELSE /\ ws_out' = [ws_out EXCEPT ![c] =
                          IF o = "written"
                          THEN Append(@, Event("calendar_updated", c))
                          ELSE IF o = "raised" /\ o2 = "written"
                          THEN Append(@, Event("error", c))
                          ELSE @]
                   /\ UNCHANGED <<ws_pc, close_code, application_state>>
           /\ calendar_audience' =
                  IF o = "raised" THEN calendar_audience
                  ELSE calendar_audience \cup
                       {<<d, c>> : d \in {x \in ConnIds :
                            ws_pc[x] \in {"loop", "voice"} /\ ws_user[x] = ws_user[c]}}
    /\ UNCHANGED <<mgr_active_connections, mgr_user_connections, ws_user,
                   client_state, sioVars, audioVars, histVars, audio_tasks,
                   commands, fanout,
                   user_fanout, aiVars>>

\* calendar_update, lines 277-306: calendar_updated goes to the room named
\* by the user id. is_dict: the payload is a dict (data.get raises otherwise)
calendar_update(sid, is_dict) ==
    /\ sio_state[sid] = "connected"
    /\ IF sid \in DOMAIN active_connections /\ is_dict
       THEN /\ RoomHasSpaceN(rooms, active_connections[sid], MaxCalendarOut)
            /\ sio_out' = emit(sio_out, rooms, active_connections[sid],
                               Event("calendar_updated", sid))
            /\ calendar_audience' = calendar_audience \cup
                   {<<r, sid>> : r \in {x \in DOMAIN active_connections :
                        active_connections[x] = active_connections[sid]}}
       ELSE /\ RoomHasSpace(rooms, sid)
            /\ sio_out' = emit(sio_out, rooms, sid, Event("error", sid))
            /\ UNCHANGED calendar_audience
    /\ UNCHANGED <<active_connections, user_sessions, sio_state, sio_auth, rooms,
                   rawVars, audioVars, histVars, audio_tasks, commands, fanout,
                   user_fanout, aiVars>>

\* list(self.active_connections.keys()): the keys in insertion order, which
\* is the order the identifiers were given out in
KeysList(ac) == SelectSeq(SubSeq(ConnNames, 1, MaxConn), LAMBDA x : x \in ac)

\* ConnectionManager.broadcast, line 99: the snapshot of the keys
broadcast_begin ==
    /\ fanout.pending = <<>>
    /\ fanout' = [pending |-> KeysList(mgr_active_connections), raised |-> FALSE]
    /\ UNCHANGED <<rawVars, sioVars, audioVars, histVars, audio_tasks, commands,
                   calendar_audience,
                   user_fanout, aiVars>>

\* ConnectionManager.broadcast, line 100: one send_personal_message of the
\* loop; an exception of send_text ends the broadcast call
broadcast_send(sent) ==
    /\ fanout.pending # <<>>
    /\ LET id == Head(fanout.pending)
           o  == ws_send_outcome(id, sent)
       IN  /\ o = "written" => Len(ws_out[id]) < MaxOut
           /\ ws_out' = [ws_out EXCEPT ![id] =
                  IF o = "written" THEN Append(@, Event("broadcast", id)) ELSE @]
           /\ fanout' = IF o = "raised"
                        THEN [pending |-> <<>>, raised |-> TRUE]
                        ELSE [pending |-> Tail(fanout.pending), raised |-> FALSE]
    /\ UNCHANGED <<mgr_active_connections, mgr_user_connections, ws_pc, ws_user,
                   client_state, application_state, close_code, sioVars,
                   audioVars, histVars, audio_tasks, commands,
                   calendar_audience,
                   user_fanout, aiVars>>

\* both transports with the frames that are answered without a collaborator,
\* and manager.broadcast
NextFrames ==
    \/ \E c \in ConnIds, o \in TokenOutcomes, sent \in BOOLEAN :
           Attempts < MaxHandlerAttempts /\ websocket_endpoint(c, o, sent)
    \/ \E c \in ConnIds : ws_client_disconnect(c)
    \/ \E c \in ConnIds : ws_bad_frame(c)
    \/ \E c \in ConnIds, sent \in BOOLEAN : ws_ping(c, sent)
    \/ \E c \in ConnIds, t \in UnknownTypes, sent \in BOOLEAN : ws_unknown(c, t, sent)
    \/ \E c \in ConnIds, sent \in BOOLEAN, sent_error \in BOOLEAN :
           handle_calendar_update_ws(c, sent, sent_error)
    \/ \E s \in Sids, o \in TokenOutcomes, sent \in BOOLEAN :
           Attempts < MaxHandlerAttempts /\ connect(s, o, sent)
    \/ \E s \in Sids : disconnect(s)
    \/ \E s \in RoomSids, r \in Users : join_room(s, r)
    \/ \E s \in Sids, d \in BOOLEAN : calendar_update(s, d)
    \/ broadcast_begin
    \/ \E sent \in BOOLEAN : broadcast_send(sent)

SpecFrames == Init /\ [][NextFrames]_vars

\* --------------------------------------------- send_to_user, send by send
\* the list object the for loop of line 94 iterates, as it is now
IteratedList(uf) ==
    IF uf.attached /\ uf.user_id \in DOMAIN mgr_user_connections
    THEN mgr_user_connections[uf.user_id]
    ELSE <<>>

\* the position in lst, after its first n items, of the first item that
\* send_personal_message calls send_text for (the call returns without an
\* await for the others); Len(lst) + 1 when there is none
RECURSIVE NextSend(_, _)
NextSend(lst, n) ==
    IF n >= Len(lst) THEN Len(lst) + 1
    ELSE IF send_personal_message_sends(mgr_active_connections, client_state,
                                        lst[n + 1])
    THEN n + 1
    ELSE NextSend(lst, n + 1)

\* send_to_user from one suspension to the next, lines 94-95: the list
\* iterator yields the item at the position it has reached, until a send_text
\* is awaited, raises, or the list is exhausted
send_to_user_run(uf, sent) ==
    LET lst == IteratedList(uf)
        j   == NextSend(lst, uf.consumed)
    IN  IF j > Len(lst)
        THEN /\ user_fanout' = [uf EXCEPT !.pc = "done"]
             /\ UNCHANGED ws_out
        ELSE IF send_text_ok(application_state, lst[j], sent)
        THEN /\ Len(ws_out[lst[j]]) < MaxFanoutOut
             /\ ws_out' = [ws_out EXCEPT ![lst[j]] =
                    Append(@, Event("broadcast", uf.user_id))]
             /\ user_fanout' = [uf EXCEPT !.consumed = j,
                                          !.delivered = Append(@, lst[j])]
        ELSE /\ user_fanout' = [uf EXCEPT !.pc = "done", !.raised = TRUE]
             /\ UNCHANGED ws_out

\* a send_to_user call that starts: line 93
StartedFanout(via, user_id, sids_reached) ==
    [NoUserFanout EXCEPT
        !.pc = "sending", !.via = via, !.user_id = user_id,
        !.attached = user_id \in DOMAIN mgr_user_connections,
        !.at_start = IF user_id \in DOMAIN mgr_user_connections
                     THEN mgr_user_connections[user_id] ELSE <<>>,
        !.sids_at_start = IF user_id \in DOMAIN user_sessions
                          THEN user_sessions[user_id] ELSE <<>>,
        !.sids_reached = sids_reached]

\* manager.send_to_user(message, user_id), lines 91-95, to its first
\* suspension
send_to_user(user_id, sent) ==
    /\ user_fanout.pc \in {"idle", "done"}
    /\ send_to_user_run(StartedFanout("send_to_user", user_id, {}), sent)
    /\ UNCHANGED <<mgr_active_connections, mgr_user_connections, ws_pc, ws_user,
                   client_state, application_state, close_code, sioVars,
                   audioVars, histVars, aiVars, audio_tasks, commands, fanout,
                   calendar_audience>>

\* broadcast_to_user(user_id, message), lines 455-462: the emit to the room
\* named by the user id, then manager.send_to_user to its first suspension
broadcast_to_user(user_id, sent) ==
    /\ user_fanout.pc \in {"idle", "done"}
    /\ LET emits == user_id \in DOMAIN user_sessions
       IN  /\ emits => RoomHasSpaceN(rooms, user_id, MaxFanoutOut)
           /\ sio_out' = IF emits
                         THEN emit(sio_out, rooms, user_id, Event("broadcast", user_id))
                         ELSE sio_out
           /\ send_to_user_run(
                  StartedFanout("broadcast_to_user", user_id,
                                IF emits THEN Members(rooms, user_id) ELSE {}),
                  sent)
    /\ UNCHANGED <<mgr_active_connections, mgr_user_connections, ws_pc, ws_user,
                   client_state, application_state, close_code,
                   active_connections, user_sessions, sio_state, sio_auth, rooms,
                   audioVars, histVars, aiVars, audio_tasks, commands, fanout,
                   calendar_audience>>

\* send_to_user resumes after the await of line 95
send_to_user_resume(sent) ==
    /\ user_fanout.pc = "sending"
    /\ send_to_user_run(
           [user_fanout EXCEPT !.quiet =
                @ /\ IteratedList(user_fanout) = user_fanout.at_start],
           sent)
    /\ UNCHANGED <<mgr_active_connections, mgr_user_connections, ws_pc, ws_user,
                   client_state, application_state, close_code, sioVars,
                   audioVars, histVars, aiVars, audio_tasks, commands, fanout,
                   calendar_audience>>

\* both transports with the fan-outs to a user; a Socket.IO client may join
\* the room of a user
NextFanout ==
    \/ \E c \in ConnIds, u \in Users, sent \in BOOLEAN :
           Attempts < MaxAttempts /\ websocket_endpoint(c, u, sent)
    \/ \E c \in ConnIds : ws_client_disconnect(c)
    \/ \E c \in ConnIds : ws_bad_frame(c)
    \/ \E s \in Sids, u \in Users :
           Attempts < MaxAttempts /\ connect(s, u, TRUE)
    \/ \E s \in Sids : disconnect(s)
    \/ \E s \in RoomSids, r \in Users : join_room(s, r)
    \/ \E u \in Users, sent \in BOOLEAN : send_to_user(u, sent)
    \/ \E u \in Users, sent \in BOOLEAN : broadcast_to_user(u, sent)
    \/ \E sent \in BOOLEAN : send_to_user_resume(sent)

SpecFanout == Init /\ [][NextFanout]_vars

\* --------------------------------------------------- conversation memory
\* the record of the n-th interaction of a user, lines 435-440: transcripts
\* are numbered in the order they come
Interaction(n) == [transcript |-> n]

\* mutant: the list is cut to its first MemoryLimit items
keep_first(l) ==
    IF Len(l) > MemoryLimit THEN SubSeq(l, 1, MemoryLimit) ELSE l

\* lines 443-444: a list longer than MemoryLimit becomes l[-10:]
keep_last(l) ==
    IF Len(l) > MemoryLimit THEN SubSeq(l, Len(l) - MemoryLimit + 1, Len(l)) ELSE l

\* AIService._update_conversation_memory, lines 430-444 (no await inside)
_update_conversation_memory(user_id) ==
    /\ interactions[user_id] < MaxInteractions
    /\ LET cm1 == IF user_id \notin DOMAIN conversation_memory
                  THEN DictSet(conversation_memory, user_id, <<>>)
                  ELSE conversation_memory
           cm2 == DictSet(cm1, user_id,
                          Append(cm1[user_id], Interaction(interactions[user_id] + 1)))
       IN  conversation_memory' = DictSet(cm2, user_id, keep_last(cm2[user_id]))
    /\ interactions' = [interactions EXCEPT ![user_id] = @ + 1]
    /\ UNCHANGED <<rawVars, sioVars, audioVars, histVars, flightVars>>

\* the interactions of the users, recorded in any order
NextMemory == \E u \in Users : _update_conversation_memory(u)

SpecMemory == Init /\ [][NextMemory]_vars

\* ------------------------------------------------------- event payloads
\* the keys that every raw-socket message of a type carries, over all the
\* places that send it: connection_established lines 60-64, voice_processing
\* 394-398, voice_response 409-418, calendar_updated 438-443, pong 368-371,
\* error 373-376, 422-426 and 447-451. The message of manager.broadcast and
\* manager.send_to_user is the caller's
ws_message_keys(type) ==
    CASE type = "connection_established" -> {"type", "connection_id", "timestamp"}
      [] type = "voice_processing" -> {"type", "status", "timestamp"}
      [] type = "voice_response" ->
             {"type", "success", "response", "command_type", "entities",
              "suggestions", "confidence", "timestamp"}
      [] type = "calendar_updated" -> {"type", "action", "event", "timestamp"}
      [] type = "pong" -> {"type", "timestamp"}
      [] type = "error" -> {"type", "message"}
      [] OTHER -> {}

\* the keys that the data of every Socket.IO event of a name carries, over all
\* the places that emit it: connection_established lines 139-143,
\* voice_processing 189-192, voice_response 203-211, voice_audio 221-225,
\* audio_processed 264-267, calendar_updated 293-297, room_joined 316-319,
\* room_left 332-335, error 178, 231-235, 243, 271-274, 282 and 303-306. The
\* data of the broadcast event is the caller's
sio_data_keys(type) ==
    CASE type = "connection_established" -> {"sid", "user_id", "timestamp"}
      [] type = "voice_processing" -> {"status", "timestamp"}
      [] type = "voice_response" ->
             {"success", "response", "command_type", "entities", "suggestions",
              "confidence", "timestamp"}
      [] type = "voice_audio" -> {"audio_path", "duration", "timestamp"}
      [] type = "audio_processed" -> {"status", "timestamp"}
      [] type = "calendar_updated" -> {"action", "event", "timestamp"}
      [] type = "room_joined" -> {"room", "timestamp"}
      [] type = "room_left" -> {"room", "timestamp"}
      [] type = "error" -> {"message"}
      [] OTHER -> {}

\* ------------------------------------------------------------------ claims
\* the identifiers in the connection lists of any user
Listed(id) ==
    \E u \in Users : InList(get_user_connections(u), id)

\* how often id occurs in the connection lists of all users of one table
Occurrences(table, id) ==
    LET RECURSIVE Sum(_)
        Sum(us) == IF us = {} THEN 0
                   ELSE LET u == CHOOSE x \in us : TRUE
                        IN  Count(table[u], id) + Sum(us \ {u})
    IN  Sum(DOMAIN table)

\* the connection_established events about id that receiver r got in out
EstablishedIn(out, r, id) ==
    Cardinality({i \in DOMAIN out[r] :
                    out[r][i] = Event("connection_established", id)})

\* C1: a connection that has been unregistered is in neither live-connection
\* table, and get_user_connections returns it for no user.
C1_UnregisteredAbsent ==
    \A id \in unregistered :
        /\ id \notin mgr_active_connections
        /\ id \notin DOMAIN active_connections
        /\ ~Listed(id)

\* a registered connection of each transport has been unregistered while
\* another connection is still registered
C1_Witness ==
    /\ \E c \in ConnIds : c \in registered /\ c \in unregistered
    /\ \E s \in Sids : s \in registered /\ s \in unregistered
    /\ mgr_active_connections # {} \/ DOMAIN active_connections # {}

\* C2: no user key of manager.user_connections or of user_sessions maps to an
\* empty list.
C2_NoEmptyList ==
    /\ \A u \in DOMAIN mgr_user_connections : mgr_user_connections[u] # <<>>
    /\ \A u \in DOMAIN user_sessions : user_sessions[u] # <<>>

\* on each transport a user's only connection was unregistered and the user
\* has no key left
C2_Witness ==
    /\ \E c \in ConnIds : /\ c \in registered /\ c \in unregistered
                          /\ ws_user[c] \notin DOMAIN mgr_user_connections
    /\ \E s \in Sids : /\ s \in registered /\ s \in unregistered
                       /\ sio_auth[s] \notin DOMAIN user_sessions

\* C3: each connection identifier occurs in the list of at most one user, and
\* at most once in it.
C3_AtMostOnce ==
    /\ \A c \in ConnIds : Occurrences(mgr_user_connections, c) <= 1
    /\ \A s \in Sids : Occurrences(user_sessions, s) <= 1

\* one user holds two connections on the raw transport, and another user
\* holds a Socket.IO connection
C3_Witness ==
    \E u \in DOMAIN mgr_user_connections :
        /\ Len(mgr_user_connections[u]) = 2
        /\ \E v \in DOMAIN user_sessions : v # u

\* C4: unregistering an identifier that is not registered changes no table and
\* raises nothing, and unregistering twice gives the state of unregistering
\* once.
C4_Idempotent ==
    /\ \A c \in ConnIds, u \in Users :
         LET r1 == ConnectionManager_disconnect_tables(
                       mgr_active_connections, mgr_user_connections,
                       client_state[c], c, u)
             r2 == ConnectionManager_disconnect_tables(
                       r1.ac, r1.uc, client_state[c], c, u)
         IN  /\ ~r1.raised /\ ~r2.raised
             /\ r2.ac = r1.ac /\ r2.uc = r1.uc
             /\ (c \notin mgr_active_connections /\ ~Listed(c))
                  => /\ r1.ac = mgr_active_connections
                     /\ r1.uc = mgr_user_connections
                     /\ ~r1.closed
    /\ \A s \in Sids :
         LET r1 == disconnect_tables(active_connections, user_sessions, s)
             r2 == disconnect_tables(r1.ac, r1.us, s)
         IN  /\ ~r1.raised /\ ~r2.raised
             /\ r2.ac = r1.ac /\ r2.us = r1.us
             /\ s \notin DOMAIN active_connections
                  => r1.ac = active_connections /\ r1.us = user_sessions

\* the disconnect handler has run for a sid that was never registered, and a
\* raw connection was unregistered, while another connection is registered
C4_Witness ==
    /\ \E s \in Sids : s \in unregistered /\ s \notin registered
    /\ \E c \in ConnIds : c \in unregistered
    /\ mgr_active_connections # {} \/ DOMAIN active_connections # {}

\* C5: when the receive loop of a registered raw-socket connection has ended,
\* the connection is in neither manager table.
C5_UnregisteredOnExit ==
    \A c \in ConnIds :
        (c \in registered /\ ws_pc[c] = "done")
            => c \notin mgr_active_connections /\ ~Listed(c)

\* C7: a connection attempt whose credentials yield no user is refused: it is
\* in no table, gets no connection_established, and the raw socket is closed
\* with 4001, which is not the internal-error code.
C7_Refused ==
    /\ CloseInvalidToken # CloseInternalError
    /\ \A c \in ConnIds :
         (ws_pc[c] = "done" /\ ws_user[c] \notin Users)
            => /\ c \notin mgr_active_connections /\ ~Listed(c)
               /\ ws_out[c] = <<>>
               /\ close_code[c] = CloseInvalidToken
    /\ \A s \in Sids :
         (sio_state[s] # "new" /\ sio_auth[s] \notin Users)
            => /\ s \notin DOMAIN active_connections /\ ~Listed(s)
               /\ sio_out[s] = <<>>

\* C8: registering a connection emits exactly one connection_established
\* event, received by the new connection and by no other.
C8_EstablishedToNewOnly ==
    /\ \A c \in ConnIds, r \in ConnIds :
         EstablishedIn(ws_out, r, c) = IF r = c /\ c \in registered THEN 1 ELSE 0
    /\ \A s \in Sids, r \in Sids :
         EstablishedIn(sio_out, r, s) = IF r = s /\ s \in registered THEN 1 ELSE 0

\* two Socket.IO connections of one user are registered, the first of them in
\* the room of the second, and a raw connection is registered as well
C8_Witness ==
    /\ \E u \in DOMAIN user_sessions :
           /\ Len(user_sessions[u]) = 2
           /\ \A i \in 1..2 : user_sessions[u][i] \in registered
           /\ user_sessions[u][1] \in rooms[user_sessions[u][2]]
    /\ \E c \in ConnIds : c \in registered /\ c \in mgr_active_connections

\* C6: once the disconnect handler has run for a sid, the cache holds no audio
\* buffer keyed to that sid.
C6_NoBufferAfterDisconnect ==
    \A s \in Sids :
        s \in unregistered => \A u \in Users : <<u, s>> \notin Live(cache, now)

\* C9: once the chunks c1..cn of a stream have been processed, cn final, the
\* buffer of the key is exactly <<c1, ..., cn>>.
C9_BufferIsStream ==
    \A k \in finalized : Buffer(cache, k, now) = stream[k]

\* C10: after a final chunk the buffer of the key is removed, and the next
\* chunk starts a buffer that holds only the chunks of the new stream.
C10_RemovedAfterFinal ==
    /\ \A k \in finalized : k \notin Live(cache, now)
    /\ \A k \in Live(cache, now) :
           k \in DOMAIN stream => Buffer(cache, k, now) = stream[k]

\* C11: of two audio_stream invocations with is_final for the same key that
\* interleave at their awaits, at most one emits the completion event.
C11_OneCompletion ==
    \A t1 \in TaskIds, t2 \in TaskIds :
        (/\ t1 \in audio_tasks[t2].during
         /\ audio_tasks[t1].is_final /\ audio_tasks[t2].is_final)
            => ~(audio_tasks[t1].emitted /\ audio_tasks[t2].emitted)

\* C12: a buffer whose most recent chunk arrived at least AudioTTL ago is
\* absent; a buffer whose most recent chunk is non-final and younger than
\* AudioTTL is present, and expires AudioTTL after that chunk arrived.
C12_TTLFromLastChunk ==
    \A k \in DOMAIN arrived :
        /\ now >= arrived[k] + AudioTTL => k \notin Live(cache, now)
        /\ (now < arrived[k] + AudioTTL /\ k \notin finalized)
              => /\ k \in Live(cache, now)
                 /\ cache[k].expires = arrived[k] + AudioTTL

\* the outbox of a connection of either transport
OutOf(id) == IF id \in ConnIds THEN ws_out[id] ELSE sio_out[id]

\* the types of the events about command k that connection id has received
ObservedBy(id, k) ==
    LET about == SelectSeq(OutOf(id), LAMBDA e : e.about = k)
    IN  [i \in DOMAIN about |-> about[i].type]

\* the voice events in a sequence of event types
VoiceOnly(types) == SelectSeq(types, LAMBDA t : InList(VoiceEvents, t))

\* s is a prefix of t
IsPrefix(s, t) == Len(s) <= Len(t) /\ s = SubSeq(t, 1, Len(s))

\* s can be got from t by dropping elements
RECURSIVE IsSubseq(_, _)
IsSubseq(s, t) ==
    IF s = <<>> THEN TRUE
    ELSE IF t = <<>> THEN FALSE
    ELSE IF Head(s) = Head(t) THEN IsSubseq(Tail(s), Tail(t))
    ELSE IsSubseq(s, Tail(t))

\* C13: for a command whose AI result is successful with response text, the
\* voice events are emitted in the order voice_processing, voice_response,
\* voice_audio, the originating connection observes them in that order, and
\* voice_audio is emitted only after voice_response and only when the
\* synthesis succeeded.
C13_VoiceOrder ==
    \A k \in CmdIds :
        commands[k].ai = "ok" =>
            LET cmd == commands[k]
                ve  == VoiceOnly(cmd.emitted)
            IN  /\ IsPrefix(ve, VoiceEvents)
                /\ IsSubseq(VoiceOnly(ObservedBy(cmd.conn, k)), ve)
                /\ InList(ve, "voice_audio") => cmd.synth = "ok"
                /\ (cmd.pc = "done" /\ ~cmd.raised) => Len(ve) >= 2
                /\ (cmd.conn \in Sids /\ cmd.synth = "ok") => ve = VoiceEvents

\* a Socket.IO command whose synthesis succeeded was observed as
\* voice_processing, voice_response, voice_audio, and a raw-socket command
\* with a successful AI result as voice_processing, voice_response
C13_Witness ==
    /\ \E k \in CmdIds : /\ commands[k].conn \in Sids
                         /\ commands[k].ai = "ok"
                         /\ ObservedBy(commands[k].conn, k) = VoiceEvents
    /\ \E k \in CmdIds : /\ commands[k].conn \in ConnIds
                         /\ commands[k].ai = "ok"
                         /\ ObservedBy(commands[k].conn, k) =
                                <<"voice_processing", "voice_response">>

\* C14: a command during whose processing an exception was raised has
\* exactly one error event, and the exception did not leave the handler: the
\* connection was not closed because of it.
C14_OneErrorStaysOpen ==
    \A k \in CmdIds :
        (commands[k].pc = "done" /\ commands[k].raised)
            => /\ Count(commands[k].emitted, "error") = 1
               /\ ~commands[k].escaped

\* C15: a command whose AI call or whose synthesis returned success=False has
\* an error event.
C15_ErrorOnCollaboratorFailure ==
    \A k \in CmdIds :
        (commands[k].pc = "done"
            /\ (commands[k].ai = "fail" \/ commands[k].synth = "fail"))
            => InList(commands[k].emitted, "error")

\* C17: no connection other than the originating one receives an event of a
\* voice command.
C17_OriginatorOnly ==
    \A k \in CmdIds, id \in ConnIds \cup Sids :
        id # commands[k].conn => ObservedBy(id, k) = <<>>

\* C16: every connection that was a live connection of user U on the
\* transport of a calendar_update of U has received the calendar_updated event
\* of that update.
C16_CalendarToAllOfUser ==
    \A p \in calendar_audience :
        InList(OutOf(p[1]), Event("calendar_updated", p[2]))

\* C18: a frame of an unknown type changes no connection table, no room, no
\* buffer and no other outbox; when the transport takes the write, the sender
\* gets exactly one error event that names the type, and its loop, its socket
\* and its close code stay as they were.
C18_UnknownFrame ==
    [][\A c \in ConnIds, t \in UnknownTypes, sent \in BOOLEAN :
          ws_unknown(c, t, sent)
            => /\ UNCHANGED <<mgr_active_connections, mgr_user_connections,
                              active_connections, user_sessions, rooms, cache,
                              sio_out, client_state, histVars>>
               /\ \A d \in ConnIds \ {c} : ws_out'[d] = ws_out[d]
               /\ IF sent
                  THEN /\ ws_out'[c] = Append(ws_out[c], Event("error", t))
                       /\ ws_pc'[c] = "loop"
                       /\ application_state'[c] = "CONNECTED"
                       /\ close_code'[c] = close_code[c]
                  ELSE ws_out'[c] = ws_out[c]
      ]_vars

\* a connection has got an error event naming an unknown type and is still in
\* its loop and registered, next to another registered connection
C18_Witness ==
    \E c \in ConnIds, t \in UnknownTypes :
        /\ ws_out[c] = <<Event("connection_established", c), Event("error", t)>>
        /\ ws_pc[c] = "loop"
        /\ c \in mgr_active_connections
        /\ \E d \in ConnIds \ {c} : d \in mgr_active_connections

\* C19: a ping changes no connection table, no room, no buffer, no
\* collaborator call in progress and no other outbox; when the transport takes
\* the write, the sender gets exactly one pong.
C19_PingPong ==
    [][\A c \in ConnIds, sent \in BOOLEAN :
          ws_ping(c, sent)
            => /\ UNCHANGED <<mgr_active_connections, mgr_user_connections,
                              active_connections, user_sessions, rooms, cache,
                              sio_out, client_state, histVars, flightVars, aiVars>>
               /\ \A d \in ConnIds \ {c} : ws_out'[d] = ws_out[d]
               /\ ws_out'[c] = IF sent THEN Append(ws_out[c], Event("pong", c))
                               ELSE ws_out[c]
      ]_vars

\* a connection in its receive loop has got exactly one pong after its
\* connection_established, while some Socket.IO connection sits in a user room
C19_Witness ==
    \E c \in ConnIds :
        /\ ws_out[c] = <<Event("connection_established", c), Event("pong", c)>>
        /\ ws_pc[c] = "loop"
        /\ \E s \in Sids, u \in Users : s \in rooms[u]

\* C20: a send_personal_message of a broadcast to an identifier that is not
\* registered, or whose socket is not connected on both sides, writes
\* nothing, changes nothing and raises nothing.
C20_SilentNoOp ==
    [][\A sent \in BOOLEAN :
          broadcast_send(sent)
            => LET id == Head(fanout.pending)
               IN  (\/ id \notin mgr_active_connections
                    \/ client_state[id] # "CONNECTED"
                    \/ application_state[id] # "CONNECTED")
                     => /\ UNCHANGED <<rawVars, sioVars, audioVars, histVars>>
                        /\ ~fanout'.raised
      ]_vars

\* C21: a fan-out to a user without raw connections writes nothing and raises
\* nothing; a fan-out during which the user's connection list did not change,
\* and no write failed, has written the message exactly once to every
\* connection that was in the list and to no other, and through
\* broadcast_to_user it has also reached exactly the Socket.IO connections of
\* the user.
C21_FanoutToUser ==
    /\ (user_fanout.pc = "done" /\ user_fanout.at_start = <<>>)
          => ~user_fanout.raised /\ user_fanout.delivered = <<>>
    /\ (user_fanout.pc = "done" /\ user_fanout.quiet /\ ~user_fanout.raised)
          => /\ \A c \in ConnIds :
                    Count(user_fanout.delivered, c) =
                        IF InList(user_fanout.at_start, c) THEN 1 ELSE 0
             /\ user_fanout.via = "broadcast_to_user"
                    => user_fanout.sids_reached =
                           {s \in Sids : InList(user_fanout.sids_at_start, s)}

\* C26: a send_to_user call that has ended without an exception has written
\* the message exactly once to every connection that was in the user's list
\* when the call started, is still in it, and is still in its receive loop.
C26_SurvivorsDelivered ==
    (user_fanout.pc = "done" /\ ~user_fanout.raised)
        => \A c \in ConnIds :
               (/\ InList(user_fanout.at_start, c)
                /\ InList(IteratedList(user_fanout), c)
                /\ ws_pc[c] = "loop")
                   => Count(user_fanout.delivered, c) = 1

\* C22: a voice command gets the same kinds of events on both transports: of
\* two commands with the same AI result that ended without an exception, one
\* on the raw socket and one on Socket.IO, the handlers emitted the same
\* sequence of events.
C22_SameVoiceEvents ==
    \A k1 \in CmdIds, k2 \in CmdIds :
        (/\ commands[k1].pc = "done" /\ commands[k2].pc = "done"
         /\ commands[k1].conn \in ConnIds /\ commands[k2].conn \in Sids
         /\ ~commands[k1].raised /\ ~commands[k2].raised
         /\ commands[k1].ai \in AIOutcomes /\ commands[k1].ai = commands[k2].ai)
            => commands[k1].emitted = commands[k2].emitted

\* C23: while the AI call of a command is pending, every other connection
\* can still be served: a raw connection in its loop can have a voice command
\* dispatched and can be unregistered, a sid can send a voice command and can
\* disconnect, the pending handlers of other commands can run to their end,
\* and new connections can be registered.
C23_OthersProceed ==
    \A k \in CmdIds :
        commands[k].pc = "ai" =>
            /\ \A d \in ConnIds \ {commands[k].conn} :
                   ws_pc[d] = "loop" =>
                       /\ ENABLED ws_client_disconnect(d)
                       /\ (\E k2 \in CmdIds : commands[k2].pc = "new")
                             => ENABLED (\E k2 \in CmdIds :
                                           handle_voice_command_ws(k2, d, TRUE, TRUE))
            /\ \A s \in Sids \ {commands[k].conn} :
                   sio_state[s] = "connected" =>
                       /\ ENABLED disconnect(s)
                       /\ (\E k2 \in CmdIds : commands[k2].pc = "new")
                             => ENABLED (\E k2 \in CmdIds : voice_command(k2, s, TRUE))
            /\ \A k2 \in CmdIds \ {k} :
                   /\ commands[k2].pc = "ai"
                         => ENABLED (\/ handle_voice_command_ws_result(k2, "ok", TRUE, TRUE)
                                     \/ voice_command_result(k2, "ok"))
                   /\ commands[k2].pc = "synth"
                         => ENABLED voice_command_audio(k2, "ok")
            /\ (\E c \in ConnIds : ws_pc[c] = "new")
                   => ENABLED (\E c \in ConnIds, u \in Users :
                                  websocket_endpoint(c, u, TRUE))
            /\ (\E s \in Sids : sio_state[s] = "new")
                   => ENABLED (\E s \in Sids, u \in Users : connect(s, u, TRUE))

\* the command of a raw connection is still waiting for its AI call, and a
\* command that another connection sent after it has run to its end and was
\* answered
C23_Witness ==
    /\ commands[CmdNames[1]].pc = "ai"
    /\ commands[CmdNames[1]].conn \in ConnIds
    /\ commands[CmdNames[2]].pc = "done"
    /\ commands[CmdNames[2]].conn \in ConnIds \ {commands[CmdNames[1]].conn}
    /\ ObservedBy(commands[CmdNames[2]].conn, CmdNames[2])
           = <<"voice_processing", "voice_response">>

\* C24: every event a connection has received, of the kinds
\* connection_established, voice_processing, voice_response, voice_audio,
\* calendar_updated, room_joined, room_left, pong and error, carries a
\* timestamp.
C24_Timestamped ==
    LET kinds == {"connection_established", "voice_processing", "voice_response",
                  "voice_audio", "calendar_updated", "room_joined", "room_left",
                  "pong", "error"}
    IN  /\ \A c \in ConnIds : \A i \in DOMAIN ws_out[c] :
               ws_out[c][i].type \in kinds
                   => "timestamp" \in ws_message_keys(ws_out[c][i].type)
        /\ \A s \in Sids : \A i \in DOMAIN sio_out[s] :
               sio_out[s][i].type \in kinds
                   => "timestamp" \in sio_data_keys(sio_out[s][i].type)

\* C25: every step of the handler of a command moves the command along
\* received, processing, responded, then synthesizing or not, delivered, or
\* from a state that is not terminal to error; no step leaves delivered or
\* error; and when the collaborator calls return, every command that was
\* received ends in delivered or error.
C25_Lifecycle ==
    /\ [][\A k \in CmdIds :
             commands'[k] # commands[k] =>
                 <<Lifecycle(commands[k]), Lifecycle(commands'[k])>> \in
                     {<<"none", "processing">>, <<"processing", "synthesizing">>,
                      <<"processing", "delivered">>, <<"synthesizing", "delivered">>,
                      <<"none", "error">>, <<"processing", "error">>,
                      <<"synthesizing", "error">>}
        ]_vars
    /\ \A k \in CmdIds :
           (commands[k].pc # "new")
               ~> [](Lifecycle(commands[k]) \in {"delivered", "error"})

\* a command has been delivered after its synthesis, and another one has ended
\* in error
C25_Witness ==
    /\ \E k \in CmdIds : /\ Lifecycle(commands[k]) = "delivered"
                         /\ commands[k].synth \in VoiceResults
    /\ \E k \in CmdIds : Lifecycle(commands[k]) = "error"

\* C27: of two audio_stream invocations for one key that interleave between
\* the cache read and the cache write, with chunks the cache can store, both
\* chunks are in the stored buffer once both have written.
C27_NoChunkLost ==
    \A t1 \in TaskIds, t2 \in TaskIds :
        (/\ t1 \in audio_tasks[t2].during
         /\ audio_tasks[t1].pc \in {"set", "done"}
         /\ audio_tasks[t2].pc \in {"set", "done"}
         /\ audio_tasks[t1].chunk # "bytes" /\ audio_tasks[t2].chunk # "bytes")
            => \A t \in {t1, t2} :
                   InList(Buffer(cache, audio_tasks[t].key, now),
                          ChunkRecord(audio_tasks[t].chunk, audio_tasks[t].is_final))

\* C28: a connection has received a calendar_updated event only of an update
\* that a connection of its own user sent.
C28_CalendarOwnUserOnly ==
    /\ \A s \in Sids : \A i \in DOMAIN sio_out[s] :
           sio_out[s][i].type = "calendar_updated"
               => sio_auth[sio_out[s][i].about] = sio_auth[s]
    /\ \A c \in ConnIds : \A i \in DOMAIN ws_out[c] :
           ws_out[c][i].type = "calendar_updated"
               => ws_user[ws_out[c][i].about] = ws_user[c]

\* C29: a connection attempt that has ended without being registered has left
\* its identifier in neither live-connection table and in no user's list.
C29_NoResidueOfFailedAttempt ==
    /\ \A c \in ConnIds :
           (ws_pc[c] = "done" /\ c \notin registered)
               => c \notin mgr_active_connections /\ ~Listed(c)
    /\ \A s \in Sids :
           (sio_state[s] = "disconnected" /\ s \notin registered)
               => s \notin DOMAIN active_connections /\ ~Listed(s)

\* C30: the memory of every user holds at most MemoryLimit interactions, and
\* they are the user's most recent ones in the order they were recorded; a
\* user without interactions has no memory; and recording an interaction of
\* one user leaves the memory of every other user as it was.
C30_LastTen ==
    /\ [](\A u \in Users :
             IF interactions[u] = 0 THEN u \notin DOMAIN conversation_memory
             ELSE /\ u \in DOMAIN conversation_memory
                  /\ Len(conversation_memory[u]) <= MemoryLimit
                  /\ LET n == interactions[u]
                         first == IF n > MemoryLimit THEN n - MemoryLimit + 1 ELSE 1
                     IN  conversation_memory[u] =
                             [i \in 1..(n - first + 1) |-> Interaction(first + i - 1)])
    /\ [][\A u \in Users :
             _update_conversation_memory(u)
                 => \A v \in Users \ {u} :
                        /\ (v \in DOMAIN conversation_memory')
                               = (v \in DOMAIN conversation_memory)
                        /\ v \in DOMAIN conversation_memory
                               => conversation_memory'[v] = conversation_memory[v]
        ]_vars

\* one user has had more interactions than the memory keeps, and another user
\* has a memory that is not full
C30_Witness ==
    \E u \in Users, v \in Users :
        /\ u # v
        /\ interactions[u] > MemoryLimit
        /\ Len(conversation_memory[u]) = MemoryLimit
        /\ interactions[v] > 0 /\ interactions[v] < MemoryLimit

====
